---- MODULE Spec2Model ----
(***************************************************************************)
(* swarm-shape: a 2D path drawn as a swarm of particles (src/src/index.ts) *)
(*                                                                         *)
(* One animation instance, as returned by computeAnimation: the particle   *)
(* set, the cursor record, the options, the 2D context, and the browser's  *)
(* animation-frame queue.                                                  *)
(*                                                                         *)
(* Numbers.  A JavaScript number is modelled in fixed point: the integer v *)
(* stands for v / Scale, and NaN is a value of its own that every          *)
(* arithmetic operation propagates.  Each source expression is evaluated   *)
(* exactly and rounded once to the nearest representable value.            *)
(* Math.random() returns k / RandDen for k in 0 .. RandDen-1 (so 0 is a    *)
(* possible draw and 1 is not).                                            *)
(***************************************************************************)
EXTENDS Integers, Sequences, FiniteSets, TLC

VARIABLES
    particles,        \* const particles: Particle[]            (line 157)
    cursor,           \* const cursor: {x, y}, each possibly undefined (152)
    particleOptions,  \* {mode, size, amount}                    (137-141)
    physicsOptions,   \* {noise, drift, repulsion}               (143-147)
    ctx,              \* canvasEl.getContext('2d') is not null   (149)
    shape,            \* the Path2D: the box points isPointInPath accepts
    pc,               \* idle, or the position inside init() or animate()
    i,                \* init's loop counter                     (166)
    j,                \* the index forEach has reached in animate (203)
    sample,           \* the x, y of getRandomPointInsideShape   (75)
    outcome,          \* the last call of init/animate and how it ended
    canvas,           \* what is drawn on the canvas since the last clearRect
    rafNext,          \* animate callbacks requested for the next frame
    rafNow,           \* callbacks of the running frame still to be invoked
    updates,          \* number of updateParticle calls made so far
    initialized,      \* history: some call of init has returned
    created,          \* history: the destination each particle was given
    lastUpdate,       \* history: the last updateParticle call: the position
                      \* before it and the two noise terms drawn
    frameSteps,       \* history: updateParticle calls per particle since the
                      \* last render tick began
    frameDone         \* history: a render tick has just run all its callbacks

vars == <<particles, cursor, particleOptions, physicsOptions, ctx, shape, pc,
          i, j, sample, outcome, canvas, rafNext, rafNow, updates,
          initialized, created, lastUpdate, frameSteps, frameDone>>

\* the options and collaborators, fixed when computeAnimation returns
config == <<particleOptions, physicsOptions, ctx, shape>>

\* the history variables of the frame loop
frameHistory == <<lastUpdate, frameSteps, frameDone>>

----------------------------------------------------------------------------
(* Bounds of the model *)

MaxParticles == 2   \* init is not called once the set would exceed this
MaxUpdates == 4     \* animate is not entered once a pass would exceed this
MaxLoops == 2       \* the caller starts at most this many animation loops
MaxClient == 1      \* clientX, clientY of a mousemove range over 0..MaxClient
MaxDist == 5        \* StepSpec: the largest offset from the destination

(* The number representation *)

Scale == 20         \* v stands for v / Scale
RandDen == 4        \* Math.random() is k / RandDen

(* The canvas element: canvasEl.width, canvasEl.height *)

Width == 2
Height == 2

-----
(* Numbers *)

NaN == [nan |-> TRUE, v |-> 0]
Num(n) == [nan |-> FALSE, v |-> n]
Undefined == [def |-> FALSE, v |-> 0]
Defined(n) == [def |-> TRUE, v |-> n]

Abs(n) == IF n < 0 THEN -n ELSE n

\* a / b rounded to the nearest integer, for b > 0
RoundDiv(a, b) ==
    IF a >= 0 THEN (2 * a + b) \div (2 * b)
              ELSE -((2 * (-a) + b) \div (2 * b))

\* the largest r in lo..hi with r * r <= n, given lo * lo <= n; squares of
\* the candidates stay below 2^31
RECURSIVE SqrtFloor(_, _, _)
SqrtFloor(n, lo, hi) ==
    IF lo = hi THEN lo
    ELSE LET mid == (lo + hi + 1) \div 2
         IN  IF mid * mid <= n THEN SqrtFloor(n, mid, hi)
                               ELSE SqrtFloor(n, lo, mid - 1)

\* the square root of n rounded to the nearest integer
SqrtRound(n) ==
    LET r == SqrtFloor(n, 0, IF n < 46340 THEN n ELSE 46340)
    IN  IF n - r * r > r THEN r + 1 ELSE r

Add(a, b) == IF a.nan \/ b.nan THEN NaN ELSE Num(a.v + b.v)

\* Math.random() * bound, for an integer bound in pixels
RandomUpTo(k, bound) == Num(RoundDiv(k * bound * Scale, RandDen))

RandomDraws == 0..(RandDen - 1)

----------------------------------------------------------------------------
(* The canvas and the shape *)

Modes == {"sides", "evenly", "inside", "spiral"}
ValidModes == {"sides", "evenly", "inside"}
Coefs == {0, Scale}                \* noise, drift: 0 or 1.0
Repulsions == {0, 1}               \* repulsion: 0 or 1 / Scale

Point(x, y) == [x |-> x, y |-> y]

\* the points Math.random() * width, Math.random() * height can produce
BoxPoint(kx, ky) == Point(RandomUpTo(kx, Width), RandomUpTo(ky, Height))

\* a Path2D is represented by the box points inside it (even-odd rule)
ShapeNone == {}
ShapeOne == {BoxPoint(2, 2)}
ShapeTwo == {BoxPoint(1, 1), BoxPoint(2, 3)}
Shapes == {ShapeNone, ShapeOne, ShapeTwo}

\* the loop condition of line 80 without its negation
isPointOutsidePath(sh, x, y) == Point(x, y) \notin sh

\* ctx.isPointInPath(shape, x, y, 'evenodd')
isPointInPath(sh, x, y) == Point(x, y) \in sh

\* (canvasEl.height + canvasEl.width) / 2
characteristicSize == RoundDiv((Height + Width) * Scale, 2)

----------------------------------------------------------------------------
(* updateParticle *)

\* Math.sqrt(a ** 2 + b ** 2)
Hypot(a, b) ==
    IF a.nan \/ b.nan THEN NaN ELSE Num(SqrtRound(a.v * a.v + b.v * b.v))

Sub(a, b) == IF a.nan \/ b.nan THEN NaN ELSE Num(a.v - b.v)

\* (Math.random() * 2 - 1) * physics.noise, for the draw k / RandDen
NoiseTerm(k, noise) == Num(RoundDiv((2 * k - RandDen) * noise, RandDen))

\* the values the noise term can take over all draws
NoiseTerms(noise) == {NoiseTerm(k, noise) : k \in RandomDraws}

\* the drift without the division by the distance
DriftTermUnscaled(delta, ddest, drift) ==
    IF delta.nan \/ ddest.nan THEN NaN
    ELSE Num(RoundDiv(delta.v * drift, Scale))

\* delta / ddest * physics.drift; ddest is 0 only when delta is 0, and 0 / 0
\* is NaN, which the multiplication keeps
DriftTerm(delta, ddest, drift) ==
    IF delta.nan \/ ddest.nan \/ ddest.v = 0 THEN NaN
    ELSE Num(RoundDiv(delta.v * drift, ddest.v))

\* delta / dcursor * (characteristicSize / dcursor) ** 2 * physics.repulsion.
\* |delta| is at most dcursor, so far from the cursor the term is below half
\* a representable step and rounds to 0.
RepulsionTerm(delta, dcursor, size, repulsion) ==
    IF delta.nan \/ dcursor.nan \/ dcursor.v = 0 THEN NaN
    ELSE IF 8 * size * size * repulsion < dcursor.v * dcursor.v THEN Num(0)
    ELSE Num(RoundDiv(delta.v * size * size * repulsion,
                      dcursor.v * dcursor.v * dcursor.v))

\* the test `cursor.x && cursor.y`: undefined and 0 are both falsy
Truthy(c) == c.def /\ c.v # 0
Repels(cur) == Truthy(cur.x) /\ Truthy(cur.y)

\* position and destination sharing one object, as `position: destination`
\* in particles.push would make them
moveParticleShared(particle, position) ==
    [particle EXCEPT !.position = position, !.destination = position]

\* the assignments to particle.position.x and .y: the position object is
\* the particle's own, the destination is another object
moveParticle(particle, position) == [particle EXCEPT !.position = position]

\* one call of updateParticle; nx, ny are the two noise terms drawn
updateParticle(particle, physics, size, cur, nx, ny) ==
    LET x1 == Add(particle.position.x, nx)
        y1 == Add(particle.position.y, ny)
        ddest == Hypot(Sub(x1, particle.destination.x),
                       Sub(y1, particle.destination.y))
        x2 == Add(x1, DriftTerm(Sub(particle.destination.x, x1), ddest,
                                physics.drift))
        y2 == Add(y1, DriftTerm(Sub(particle.destination.y, y1), ddest,
                                physics.drift))
        cx == Num(cur.x.v)
        cy == Num(cur.y.v)
        dcursor == Hypot(Sub(x2, cx), Sub(y2, cy))
        x3 == Add(x2, RepulsionTerm(Sub(x2, cx), dcursor, size,
                                    physics.repulsion))
        y3 == Add(y2, RepulsionTerm(Sub(y2, cy), dcursor, size,
                                    physics.repulsion))
    IN  IF Repels(cur)
        THEN moveParticle(particle, Point(x3, y3))
        ELSE moveParticle(particle, Point(x2, y2))

---------------------------------------------------------------------------------------------------------------------------------------------------
(* init *)

\* rand < 0.25 ? 'top' : rand < 0.5 ? 'right' : rand < 0.75 ? 'bottom' : 'left'
Side(k) ==
    IF 4 * k < RandDen THEN "top"
    ELSE IF 2 * k < RandDen THEN "right"
    ELSE IF 4 * k < 3 * RandDen THEN "bottom"
    ELSE "left"

\* the placement with the right side drawn along the top edge instead of
\* pinned to x = width
initialPositionRightUnpinned(mode, destination, k1, k2) ==
    IF mode = "sides" THEN
        LET side == Side(k1)
        IN  Point(IF side \in {"top", "bottom", "right"} THEN RandomUpTo(k2, Width)
                  ELSE Num(0),
                  IF side \in {"left", "right"} THEN RandomUpTo(k2, Height)
                  ELSE IF side = "top" THEN Num(0) ELSE Num(Height * Scale))
    ELSE IF mode = "evenly" THEN
        Point(RandomUpTo(k1, Width), RandomUpTo(k2, Height))
    ELSE
        Point(destination.x, destination.y)

\* the x, y of lines 169-184 for a valid mode; k1, k2 are the Math.random()
\* draws in the order the code makes them
initialPosition(mode, destination, k1, k2) ==
    IF mode = "sides" THEN
        LET side == Side(k1)
        IN  Point(IF side \in {"top", "bottom"} THEN RandomUpTo(k2, Width)
                  ELSE IF side = "left" THEN Num(0) ELSE Num(Width * Scale),
                  IF side \in {"left", "right"} THEN RandomUpTo(k2, Height)
                  ELSE IF side = "top" THEN Num(0) ELSE Num(Height * Scale))
    ELSE IF mode = "evenly" THEN
        Point(RandomUpTo(k1, Width), RandomUpTo(k2, Height))
    ELSE
        Point(destination.x, destination.y)

Call(op, result) == [op |-> op, result |-> result]

\* the caller invokes init(); canvasEl is not null in an instance (line 132)
InitCall ==
    /\ pc = "idle"
    /\ rafNow = 0
    /\ Len(particles) + particleOptions.amount <= MaxParticles
    /\ pc' = "loop"
    /\ i' = 0
    /\ outcome' = Call("init", "running")
    /\ frameDone' = FALSE
    /\ UNCHANGED <<particles, cursor, config, j, sample, canvas, rafNext,
                   rafNow, updates, initialized, created, lastUpdate,
                   frameSteps>>

\* the loop test of line 166 and the entry of getRandomPointInsideShape
LoopTest ==
    /\ pc = "loop"
    /\ IF i < particleOptions.amount
       THEN IF ~ctx
            THEN /\ pc' = "idle"
                 /\ outcome' = Call("init", "Canvas not found")
                 /\ UNCHANGED initialized
            ELSE /\ pc' = "sampling"
                 /\ UNCHANGED <<outcome, initialized>>
       ELSE /\ pc' = "idle"
            /\ outcome' = Call("init", "ok")
            /\ initialized' = TRUE
    /\ UNCHANGED <<particles, cursor, config, i, j, sample, canvas, rafNext,
                   rafNow, updates, created, frameHistory>>

\* one iteration of the do-while of lines 76-80, drawing kx / RandDen and
\* ky / RandDen
Sample(kx, ky) ==
    /\ pc = "sampling"
    /\ sample' = BoxPoint(kx, ky)
    /\ pc' = IF isPointInPath(shape, sample'.x, sample'.y)
             THEN "place" ELSE "sampling"
    /\ UNCHANGED <<particles, cursor, config, i, j, outcome, canvas, rafNext,
                   rafNow, updates, initialized, created, frameHistory>>

\* lines 169-193: the position by mode, then particles.push
Place ==
    /\ pc = "place"
    /\ IF particleOptions.mode \in ValidModes
       THEN \E k1 \in RandomDraws, k2 \in RandomDraws :
              /\ particles' = Append(particles,
                    [position |-> initialPosition(particleOptions.mode,
                                                  sample, k1, k2),
                     destination |-> sample,
                     size |-> particleOptions.size])
              /\ created' = Append(created, sample)
              /\ frameSteps' = Append(frameSteps, 0)
              /\ i' = i + 1
              /\ pc' = "loop"
              /\ UNCHANGED outcome
       ELSE /\ pc' = "idle"
            /\ outcome' = Call("init", "Invalid particle mode")
            /\ UNCHANGED <<particles, created, frameSteps, i>>
    /\ UNCHANGED <<cursor, config, j, sample, canvas, rafNext, rafNow,
                   updates, initialized, lastUpdate, frameDone>>

----------------------------------------------------------------------------
(* animate *)

\* the entry of animate(): the context check of line 198, then clearRect
animateEnter(op) ==
    IF ~ctx
    THEN /\ outcome' = Call(op, "Canvas not found")
         /\ UNCHANGED <<pc, j, canvas>>
    ELSE /\ outcome' = Call(op, "running")
         /\ pc' = "forEach"
         /\ j' = 1
         /\ canvas' = <<>>

\* the caller invokes animate()
AnimateCall ==
    /\ pc = "idle"
    /\ rafNow = 0
    /\ rafNext < MaxLoops
    /\ updates + Len(particles) <= MaxUpdates
    /\ animateEnter("animate")
    /\ frameDone' = FALSE
    /\ UNCHANGED <<particles, cursor, config, i, sample, rafNext, rafNow,
                   updates, initialized, created, lastUpdate, frameSteps>>

\* the browser starts a frame: the callbacks requested so far are due
Tick ==
    /\ pc = "idle"
    /\ rafNow = 0
    /\ rafNext > 0
    /\ rafNow' = rafNext
    /\ rafNext' = 0
    /\ frameSteps' = [k \in 1..Len(particles) |-> 0]
    /\ frameDone' = FALSE
    /\ UNCHANGED <<particles, cursor, config, pc, i, j, sample, outcome,
                   canvas, updates, initialized, created, lastUpdate>>

\* the browser invokes one due callback, which is animate
FrameCallback ==
    /\ pc = "idle"
    /\ rafNow > 0
    /\ updates + Len(particles) <= MaxUpdates
    /\ rafNow' = rafNow - 1
    /\ animateEnter("frame")
    /\ UNCHANGED <<particles, cursor, config, i, sample, rafNext, updates,
                   initialized, created, frameHistory>>

\* one iteration of particles.forEach: updateParticle, then drawParticle
ForEachParticle(nx, ny) ==
    /\ pc = "forEach"
    /\ j <= Len(particles)
    /\ particles' = [particles EXCEPT ![j] =
            updateParticle(particles[j], physicsOptions, characteristicSize,
                           cursor, nx, ny)]
    /\ canvas' = Append(canvas, particles'[j].position)
    /\ j' = j + 1
    /\ updates' = updates + 1
    /\ lastUpdate' = [before |-> particles[j].position, nx |-> nx, ny |-> ny]
    /\ frameSteps' = [frameSteps EXCEPT ![j] = @ + 1]
    /\ UNCHANGED <<cursor, config, pc, i, sample, outcome, rafNext, rafNow,
                   initialized, created, frameDone>>

\* the end of the pass: requestAnimationFrame(animate), and animate returns
AnimateReturn ==
    /\ pc = "forEach"
    /\ j > Len(particles)
    /\ rafNext' = rafNext + 1
    /\ pc' = "idle"
    /\ outcome' = Call(outcome.op, "ok")
    /\ frameDone' = (outcome.op = "frame" /\ rafNow = 0)
    /\ UNCHANGED <<particles, cursor, config, i, j, sample, canvas, rafNow,
                   updates, initialized, created, lastUpdate, frameSteps>>

----------------------------------------------------------------------------
(* The pointer listeners *)

\* canvasEl.addEventListener('mousemove', ...): events are dispatched
\* between calls, never inside a running frame
MouseMove(clientX, clientY) ==
    /\ pc = "idle"
    /\ rafNow = 0
    /\ cursor' = [x |-> Defined(clientX * Scale), y |-> Defined(clientY * Scale)]
    /\ UNCHANGED <<particles, config, pc, i, j, sample, outcome, canvas,
                   rafNext, rafNow, updates, initialized, created,
                   frameHistory>>

\* canvasEl.addEventListener('mouseleave', ...)
MouseLeave ==
    /\ pc = "idle"
    /\ rafNow = 0
    /\ cursor' = [x |-> Undefined, y |-> Undefined]
    /\ UNCHANGED <<particles, config, pc, i, j, sample, outcome, canvas,
                   rafNext, rafNow, updates, initialized, created,
                   frameHistory>>

----------------------------------------------------------------------------
(* The instance computeAnimation returns *)

NoCursor == [x |-> Undefined, y |-> Undefined]
NoUpdate == [before |-> Point(NaN, NaN), nx |-> Num(0), ny |-> Num(0)]

\* lines 152-157 and the state of the collaborators before any call
Fresh ==
    /\ particles = <<>>
    /\ cursor = NoCursor
    /\ pc = "idle"
    /\ i = 0
    /\ j = 0
    /\ sample = Point(NaN, NaN)
    /\ outcome = Call("none", "none")
    /\ canvas = <<>>
    /\ rafNext = 0
    /\ rafNow = 0
    /\ updates = 0
    /\ initialized = FALSE
    /\ created = <<>>
    /\ lastUpdate = NoUpdate
    /\ frameSteps = <<>>
    /\ frameDone = FALSE

\* The whole instance.  The explored options: every mode and amount, with
\* and without a context; noise off; the two-point shape with the modes whose
\* placement draws no position.
Init ==
    /\ Fresh
    /\ particleOptions \in [mode : Modes, size : {Scale}, amount : 0..MaxParticles]
    /\ physicsOptions \in [noise : {0}, drift : Coefs, repulsion : Repulsions]
    /\ ctx \in BOOLEAN
    /\ shape \in Shapes
    /\ shape = ShapeTwo => particleOptions.mode \in {"inside", "spiral"}

Next ==
    \/ InitCall
    \/ LoopTest
    \/ \E kx \in RandomDraws, ky \in RandomDraws : Sample(kx, ky)
    \/ Place
    \/ AnimateCall
    \/ Tick
    \/ FrameCallback
    \/ \E nx \in NoiseTerms(physicsOptions.noise),
          ny \in NoiseTerms(physicsOptions.noise) : ForEachParticle(nx, ny)
    \/ AnimateReturn
    \/ \E clientX \in 0..MaxClient, clientY \in 0..MaxClient :
          MouseMove(clientX, clientY)
    \/ MouseLeave

Spec == Init /\ [][Next]_vars

----------------------------------------------------------------------------
(* Placement alone: the calls of init, with the random source fair *)

InitPlacement ==
    /\ Fresh
    /\ particleOptions \in [mode : Modes, size : {Scale}, amount : 0..MaxParticles]
    /\ physicsOptions = [noise |-> 0, drift |-> Scale, repulsion |-> 0]
    /\ ctx \in BOOLEAN
    /\ shape \in Shapes

NextPlacement ==
    \/ InitCall
    \/ LoopTest
    \/ \E kx \in RandomDraws, ky \in RandomDraws : Sample(kx, ky)
    \/ Place

\* a draw of the sampling loop that isPointInPath accepts
AcceptedSample ==
    \E kx \in RandomDraws, ky \in RandomDraws :
        Sample(kx, ky) /\ pc' = "place"

\* init runs to its end once called, and Math.random() does not avoid the
\* points of the shape for ever
PlacementFairness ==
    /\ WF_vars(LoopTest)
    /\ WF_vars(Place)
    /\ WF_vars(AcceptedSample)

PlacementSpec == InitPlacement /\ [][NextPlacement]_vars /\ PlacementFairness

----------------------------------------------------------------------------
(* updateParticle alone: one call on one particle *)

\* offsets from the destination whose length is representable: multiples of
\* (3, 4) and of (5, 0), in every direction, and the zero offset
Offsets ==
    {<<0, 0>>} \cup
    UNION {{<<sx * a * m, sy * b * m>> : sx \in {-1, 1}, sy \in {-1, 1}} :
           a \in {0, 3, 4, 5}, b \in {0, 3, 4, 5}, m \in 1..MaxDist}

ExactOffsets ==
    {o \in Offsets :
        SqrtRound(o[1] * o[1] + o[2] * o[2]) * SqrtRound(o[1] * o[1] + o[2] * o[2])
            = o[1] * o[1] + o[2] * o[2]}

Cursors ==
    {NoCursor} \cup
    {[x |-> Defined(cx * Scale), y |-> Defined(cy * Scale)] :
        cx \in 0..MaxClient, cy \in 0..MaxClient}

\* animate has reached the forEach of line 203 with one particle in the set
InitStep ==
    /\ \E o \in ExactOffsets :
         particles = <<[position |-> Point(Num(Scale + o[1]), Num(Scale + o[2])),
                        destination |-> Point(Num(Scale), Num(Scale)),
                        size |-> Scale]>>
    /\ cursor \in Cursors
    /\ particleOptions = [mode |-> "evenly", size |-> Scale, amount |-> 1]
    /\ physicsOptions \in [noise : Coefs, drift : Coefs, repulsion : Repulsions]
    /\ ctx = TRUE
    /\ shape = ShapeOne
    /\ pc = "forEach"
    /\ i = 1
    /\ j = 1
    /\ sample = Point(Num(Scale), Num(Scale))
    /\ outcome = Call("animate", "running")
    /\ canvas = <<>>
    /\ rafNext = 0
    /\ rafNow = 0
    /\ updates = 0
    /\ initialized = TRUE
    /\ created = <<Point(Num(Scale), Num(Scale))>>
    /\ lastUpdate = NoUpdate
    /\ frameSteps = <<0>>
    /\ frameDone = FALSE

NextStep ==
    \E nx \in NoiseTerms(physicsOptions.noise),
       ny \in NoiseTerms(physicsOptions.noise) : ForEachParticle(nx, ny)

StepSpec == InitStep /\ [][NextStep]_vars

----------------------------------------------------------------------------
(* Properties *)

PointerPresent == cursor.x.def /\ cursor.y.def
Distance(a, b) == Hypot(Sub(a.x, b.x), Sub(a.y, b.y))
InitReturned == outcome.op = "init" /\ pc = "idle"

\* C1: from the completion of the first init onward, whenever the program is
\* between calls, the particle set's length equals the configured amount.
C1_LengthIsAmount ==
    (initialized /\ pc = "idle") => Len(particles) = particleOptions.amount

\* The position lines 103-111 compute from `before` for the noise terms nx, ny
\* when nothing else is added.
NoiseAndDrift(before, destination, nx, ny) ==
    LET x1 == Add(before.x, nx)
        y1 == Add(before.y, ny)
        d == Distance(Point(x1, y1), destination)
    IN  Point(Add(x1, DriftTerm(Sub(destination.x, x1), d, physicsOptions.drift)),
              Add(y1, DriftTerm(Sub(destination.y, y1), d, physicsOptions.drift)))

\* The position after the repulsion term of lines 115-119 is added to `at`.
Repelled(at) ==
    LET c == Point(Num(cursor.x.v), Num(cursor.y.v))
        d == Distance(at, c)
    IN  Point(Add(at.x, RepulsionTerm(Sub(at.x, c.x), d, characteristicSize,
                                      physicsOptions.repulsion)),
              Add(at.y, RepulsionTerm(Sub(at.y, c.y), d, characteristicSize,
                                      physicsOptions.repulsion)))

\* C2: in a frame step the repulsion term is added to the position exactly
\* when the pointer state is present (the last pointer event was a move, for
\* any coordinates, 0 included); with the pointer absent the step is the
\* noise-and-drift step with the same draws.  Stated for the steps in which
\* the term is a number: a repulsion other than 0, away from the pointer.
C2_RepulsionIffPointerPresent ==
    (pc = "forEach" /\ j > 1 /\ physicsOptions.repulsion # 0) =>
        LET p == particles[j - 1]
            base == NoiseAndDrift(lastUpdate.before, p.destination,
                                  lastUpdate.nx, lastUpdate.ny)
        IN  IF PointerPresent
            THEN Repelled(base).x.nan \/ p.position = Repelled(base)
            ELSE p.position = base

\* C3: init with a mode outside {sides, evenly, inside} ends with the error
\* 'Invalid particle mode', whatever the amount, and appends no particle.
C3_InvalidModeFails ==
    (InitReturned /\ ctx /\ particleOptions.mode \notin ValidModes) =>
        (outcome.result = "Invalid particle mode" /\ particles = <<>>)

\* C4: without a 2D context, init and animate both end with the error
\* 'Canvas not found', whatever the amount, and no particle is created,
\* moved or drawn.
C4_MissingContextFails ==
    (~ctx /\ pc = "idle" /\ outcome.op # "none") =>
        /\ outcome.result = "Canvas not found"
        /\ particles = <<>>
        /\ canvas = <<>>
        /\ updates = 0

\* C5: a step with noise = 0, drift = 0, repulsion = 0 and no pointer leaves
\* the position as it was, also when the position equals the destination.
C5_ZeroForceStepIsNoOp ==
    ( /\ pc = "forEach" /\ j > 1
      /\ physicsOptions = [noise |-> 0, drift |-> 0, repulsion |-> 0]
      /\ ~PointerPresent )
    => particles[j - 1].position = lastUpdate.before

PinnedX(q) == q.x.v \in {0, Width * Scale}
PinnedY(q) == q.y.v \in {0, Height * Scale}
InsideX(q) == 0 <= q.x.v /\ q.x.v < Width * Scale
InsideY(q) == 0 <= q.y.v /\ q.y.v < Height * Scale

\* C6 as stated: after placement in mode sides exactly one coordinate of every
\* position equals 0 or its bound, and the other lies in [0, bound) and is
\* not itself an edge value.
C6_ExactlyOnePinned ==
    particleOptions.mode = "sides" =>
        \A k \in 1..Len(particles) :
            LET q == particles[k].position
            IN  \/ PinnedX(q) /\ InsideY(q) /\ ~PinnedY(q)
                \/ PinnedY(q) /\ InsideX(q) /\ ~PinnedX(q)

\* C6 amended: after placement in mode sides one coordinate of every position
\* equals 0 or its bound and the other lies in [0, bound); the other may be 0
\* too, so the corners (0,0), (width,0) and (0,height) are possible positions.
C6_OnOneSide ==
    particleOptions.mode = "sides" =>
        \A k \in 1..Len(particles) :
            LET q == particles[k].position
            IN  \/ PinnedX(q) /\ InsideY(q)
                \/ PinnedY(q) /\ InsideX(q)

\* a particle placed in mode sides on a corner of the canvas
C6_Witness ==
    /\ particleOptions.mode = "sides"
    /\ InitReturned /\ outcome.result = "ok"
    /\ \E k \in 1..Len(particles) :
          PinnedX(particles[k].position) /\ PinnedY(particles[k].position)

\* C7: in every reachable state every particle's destination satisfies the
\* point-in-shape test and is the point the particle was given at creation.
C7_DestinationFixed ==
    \A k \in 1..Len(particles) :
        /\ particles[k].destination = created[k]
        /\ isPointInPath(shape, particles[k].destination.x,
                         particles[k].destination.y)

\* two particles placed in mode inside on different points, each stepped in
\* two frames since, the first no longer on its destination
C7_Witness ==
    /\ particleOptions.mode = "inside"
    /\ Len(particles) = 2
    /\ updates = 4
    /\ pc = "idle"
    /\ particles[1].destination # particles[2].destination
    /\ particles[1].position # particles[1].destination

DriftOnlyStepDone ==
    /\ updates = 1
    /\ physicsOptions = [noise |-> 0, drift |-> Scale, repulsion |-> 0]
    /\ ~PointerPresent
    /\ lastUpdate.before # particles[1].destination

DistanceBefore == Distance(lastUpdate.before, particles[1].destination).v
DistanceAfter == Distance(particles[1].position, particles[1].destination).v

\* C8 as stated: a step with drift = 1, noise = 0, repulsion = 0 and no pointer
\* from a position at distance d > 0 of the destination ends strictly closer,
\* at distance d - 1.
C8_CloserByOne ==
    DriftOnlyStepDone =>
        /\ ~particles[1].position.x.nan
        /\ DistanceAfter = DistanceBefore - Scale
        /\ DistanceAfter < DistanceBefore

\* C8 amended: such a step ends at distance |d - 1|: at d - 1 when d >= 1, and
\* at 1 - d, beyond the destination, when d < 1; it ends strictly closer
\* exactly when d > 1/2.
C8_UnitStep ==
    DriftOnlyStepDone =>
        /\ ~particles[1].position.x.nan
        /\ ~particles[1].position.y.nan
        /\ DistanceAfter = Abs(DistanceBefore - Scale)
        /\ (DistanceAfter < DistanceBefore) <=> (2 * DistanceBefore > Scale)

\* a drift-only step from less than 1 away that went past the destination
C8_Witness ==
    /\ DriftOnlyStepDone
    /\ DistanceBefore < Scale
    /\ DistanceAfter > DistanceBefore

\* C9 as stated, second half: with a shape that has no interior point in the
\* box, init with amount > 0 never returns and never reports an error.
C9_EmptyShapeNeverEnds ==
    (shape = {} /\ particleOptions.amount > 0 /\ outcome.op = "init") =>
        outcome.result = "running"

\* C9 amended: if Math.random() eventually returns every value, init ends
\* (by returning or throwing) for every mode and amount whenever the shape
\* has an interior point in the box; with no such point and a 2D context
\* present, init with amount > 0 stays in the sampling loop for ever, never
\* returning and never reporting an error (without a context it throws
\* 'Canvas not found' before sampling).
C9_SamplingLoop ==
    /\ (shape # {} /\ pc # "idle") ~> (pc = "idle")
    /\ [][(shape = {} /\ pc = "sampling") => pc' = "sampling"]_vars
    /\ []((shape = {} /\ ctx /\ particleOptions.amount > 0 /\ outcome.op = "init")
            => outcome.result = "running")

\* the sampling loop has rejected a point of an empty shape and goes on
C9_Witness ==
    /\ shape = {}
    /\ pc = "sampling"
    /\ ~sample.x.nan
    /\ outcome = Call("init", "running")

\* C10: when a render tick has run its callbacks, the physics step has been
\* applied exactly once to each particle in that frame, whatever calls of init
\* and animate came before.
C10_OneStepPerFrame ==
    frameDone => \A k \in 1..Len(particles) : frameSteps[k] = 1

====
